---- MODULE Spec2Model ----
(***************************************************************************)
(* Model of crane-lib's state_transfer core:                               *)
(*   - transport/stunnel/client.go : rendering of the stunnel client       *)
(*     configuration and reconciliation of the client ConfigMap / Secret   *)
(*   - transfer/transfer.go        : connection address derivation and     *)
(*     pod health evaluation                                               *)
(*                                                                         *)
(* The rendered stunnel.conf is a line oriented text.  It is modelled as   *)
(* the sequence of its lines; a "key = value" line is the pair             *)
(* <<key, value>>, a section header is a 1-tuple.  Values are the strings  *)
(* the template writes, built with the same conversions as the code.       *)
(***************************************************************************)
EXTENDS Integers, Sequences, FiniteSets, TLC

VARIABLES
    configMaps,     \* ConfigMap objects stored in the cluster behind client c
    secrets,        \* Secret objects stored in the cluster behind client c
    transportState, \* per StunnelTransport: clientContainers, clientVolumes
    last,           \* record of the most recent CreateClient call (history)
    pc,             \* concurrent callers: position of each CreateClient call
    call,           \* concurrent callers: inputs and locals of each call
    started,        \* concurrent callers: order in which the calls were entered
    rIn,            \* rendering: the inputs (TransportOptions, Endpoint)
    rOut,           \* rendering: the rendered stunnel.conf
    pods,           \* health: pods known to the cluster
    health,         \* health: result of the last health evaluation
    transfer,       \* connection: the Transfer under evaluation
    conn            \* connection: results of ConnectionHostname / ConnectionPort

vars == <<configMaps, secrets, transportState, last, pc, call, started,
          rIn, rOut, pods, health, transfer, conn>>

clusterVars == <<configMaps, secrets, transportState, last>>
concVars    == <<pc, call, started>>
renderVars  == <<rIn, rOut>>
healthVars  == <<pods, health>>
connVars    == <<transfer, conn>>

Nil    == "nil"                \* Go's nil error
None   == "none"               \* a variable its specification does not use
NoCall == [ called |-> FALSE ] \* no CreateClient call recorded yet
NoConf == << >>                \* no stunnel.conf rendered yet

-----------------------------------------------------------------------------
(* Conversions used by createClientConfig.                                 *)

Digit(d) ==
    CASE d = 0 -> "0" [] d = 1 -> "1" [] d = 2 -> "2" [] d = 3 -> "3"
      [] d = 4 -> "4" [] d = 5 -> "5" [] d = 6 -> "6" [] d = 7 -> "7"
      [] d = 8 -> "8" [] d = 9 -> "9"

RECURSIVE Itoa(_)
\* strconv.Itoa: decimal text of an integer
Itoa(n) ==
    IF n < 0 THEN "-" \o Itoa(0 - n)
    ELSE IF n < 10 THEN Digit(n)
    ELSE Itoa(n \div 10) \o Digit(n % 10)

\* strconv.FormatBool
FormatBool(b) == IF b THEN "true" ELSE "false"

\* client.go:82-88, the CA verify level written to the template context
ResolveCAVerifyLevel(opts) ==
    IF opts.CAVerifyLevel = "" THEN "2" ELSE opts.CAVerifyLevel

\* client.go:90-99, the template context
Connections(opts, e) ==
    [ stunnelPort   |-> Itoa(e.port),
      hostname      |-> e.hostname,
      port          |-> Itoa(e.exposedPort),
      proxyHost     |-> opts.ProxyURL,
      proxyUsername |-> opts.ProxyUsername,
      proxyPassword |-> opts.ProxyPassword,
      caVerifyLevel |-> ResolveCAVerifyLevel(opts),
      noVerifyCA    |-> FormatBool(opts.NoVerifyCA) ]

\* ProxyUsernameLines with the condition on the wrong field
ProxyUsernameLines_WrongField(m) ==
    IF ~(m.proxyPassword = "") THEN << <<"protocolUsername", m.proxyUsername>> >>
    ELSE << >>

\* client.go:35-37
ProxyUsernameLines(m) ==
    IF ~(m.proxyUsername = "") THEN << <<"protocolUsername", m.proxyUsername>> >>
    ELSE << >>

\* client.go:38-40
ProxyPasswordLines(m) ==
    IF ~(m.proxyPassword = "") THEN << <<"protocolPassword", m.proxyPassword>> >>
    ELSE << >>

\* client.go:31-43
ConnectLines(m) ==
    IF ~(m.proxyHost = "")
    THEN << <<"protocol", "connect">>,
            <<"connect", m.proxyHost>>,
            <<"protocolHost", m.hostname \o ":" \o m.port>> >>
         \o ProxyUsernameLines(m) \o ProxyPasswordLines(m)
    ELSE << <<"connect", m.hostname \o ":" \o m.port>> >>

\* client.go:44-46
VerifyLines(m) ==
    IF ~(m.noVerifyCA = "false") THEN << <<"verify", m.caVerifyLevel>> >>
    ELSE << >>

\* client.go:20-47, stunnelClientConfTemplate executed on context m
ExecuteTemplate(m) ==
    << <<"pid", "">>,
       <<"sslVersion", "TLSv1.2">>,
       <<"client", "yes">>,
       <<"syslog", "no">>,
       <<"output", "/dev/stdout">>,
       <<"[rsync]">>,
       <<"debug", "7">>,
       <<"accept", m.stunnelPort>>,
       <<"cert", "/etc/stunnel/certs/tls.crt">>,
       <<"key", "/etc/stunnel/certs/tls.key">> >>
    \o ConnectLines(m) \o VerifyLines(m)

\* client.go:82-110, the text stored under "stunnel.conf"
RenderStunnelConf(opts, e) == ExecuteTemplate(Connections(opts, e))

\* The lines of a rendered config with directive k
LinesOf(conf, k) == { i \in DOMAIN conf : conf[i][1] = k }
HasLine(conf, k, v) == \E i \in DOMAIN conf : conf[i] = <<k, v>>

-----------------------------------------------------------------------------
(* Values the variables of a specification hold when it does not use them. *)

IdleCluster == /\ configMaps = {} /\ secrets = {}
               /\ transportState = << >> /\ last = NoCall
IdleConc    == pc = << >> /\ call = << >> /\ started = << >>
IdleRender  == rIn = None /\ rOut = NoConf
IdleHealth  == pods = << >> /\ health = None
IdleConn    == transfer = None /\ conn = None

-----------------------------------------------------------------------------
(* SpecRender: createClientConfig's rendering as a function of the         *)
(* TransportOptions and the Endpoint.                                      *)

CAVerifyLevels == {"", "0", "2", "3"}
ProxyURLs      == {"", "proxy.example:3128"}
ProxyUsernames == {"", "alice"}
ProxyPasswords == {"", "s3cret"}

AllOptions ==
    [ CAVerifyLevel : CAVerifyLevels,
      ProxyURL      : ProxyURLs,
      ProxyUsername : ProxyUsernames,
      ProxyPassword : ProxyPasswords,
      NoVerifyCA    : BOOLEAN ]

RenderEndpoints ==
    [ hostname : {"dest.example"}, port : {2222, 6443},
      exposedPort : {443}, labels : {"app=crane2-rsync"} ]

RenderInit ==
    /\ rIn \in [ opts : AllOptions, e : RenderEndpoints ]
    /\ rOut = NoConf
    /\ IdleCluster /\ IdleConc /\ IdleHealth /\ IdleConn

Render ==
    /\ rOut = NoConf
    /\ rOut' = RenderStunnelConf(rIn.opts, rIn.e)
    /\ UNCHANGED <<rIn, clusterVars, concVars, healthVars, connVars>>

RenderNext == Render

SpecRender == RenderInit /\ [][RenderNext]_vars

\* C5: with the resolved CA verify level L ("2" when CAVerifyLevel is empty),
\* the rendered config holds the line "verify = L" exactly when NoVerifyCA is
\* false, and no verify line at all when NoVerifyCA is true.
C5_VerifyUnlessNoVerifyCA ==
    rOut # NoConf =>
        IF rIn.opts.NoVerifyCA
        THEN LinesOf(rOut, "verify") = {}
        ELSE HasLine(rOut, "verify", ResolveCAVerifyLevel(rIn.opts))

\* C9 as stated: each of protocolUsername / protocolPassword is absent when its
\* own field is empty and present verbatim when its own field is non-empty,
\* whatever the other options are.
C9_ProxyCredentialsOwnFieldOnly ==
    rOut # NoConf =>
        /\ (rIn.opts.ProxyUsername = "" => LinesOf(rOut, "protocolUsername") = {})
        /\ (rIn.opts.ProxyUsername # ""
               => HasLine(rOut, "protocolUsername", rIn.opts.ProxyUsername))
        /\ (rIn.opts.ProxyPassword = "" => LinesOf(rOut, "protocolPassword") = {})
        /\ (rIn.opts.ProxyPassword # ""
               => HasLine(rOut, "protocolPassword", rIn.opts.ProxyPassword))

\* C9 amended: the protocolUsername line is present, once and with the value
\* verbatim, exactly when ProxyURL and ProxyUsername are both non-empty, and
\* absent otherwise; likewise protocolPassword for ProxyPassword.  Given
\* ProxyURL, each line depends only on its own field.
C9_ProxyCredentialsWithinProxyBlock ==
    rOut # NoConf =>
        /\ IF rIn.opts.ProxyURL # "" /\ rIn.opts.ProxyUsername # ""
           THEN /\ Cardinality(LinesOf(rOut, "protocolUsername")) = 1
                /\ HasLine(rOut, "protocolUsername", rIn.opts.ProxyUsername)
           ELSE LinesOf(rOut, "protocolUsername") = {}
        /\ IF rIn.opts.ProxyURL # "" /\ rIn.opts.ProxyPassword # ""
           THEN /\ Cardinality(LinesOf(rOut, "protocolPassword")) = 1
                /\ HasLine(rOut, "protocolPassword", rIn.opts.ProxyPassword)
           ELSE LinesOf(rOut, "protocolPassword") = {}

\* C9 witness: a render with a proxy, a username and no password
C9_Witness ==
    /\ rOut # NoConf
    /\ rIn.opts.ProxyURL # ""
    /\ rIn.opts.ProxyUsername # ""
    /\ rIn.opts.ProxyPassword = ""
    /\ HasLine(rOut, "protocolUsername", "alice")

-----------------------------------------------------------------------------
(* The cluster behind client.Client: a set of objects per kind, at most    *)
(* one per (namespace, name).  A call may fail with an error of its own    *)
(* (the fault argument, Nil for none).                                     *)

AlreadyExists == "AlreadyExists"
NotFound      == "NotFound"

ObjectsAt(store, ns, name) ==
    { o \in store : o.namespace = ns /\ o.name = name }

\* c.Create: fails with AlreadyExists when an object of that name is stored
ClientCreate(store, obj, fault) ==
    IF fault # Nil THEN [ store |-> store, err |-> fault ]
    ELSE IF ObjectsAt(store, obj.namespace, obj.name) # {}
         THEN [ store |-> store, err |-> AlreadyExists ]
         ELSE [ store |-> store \cup {obj}, err |-> Nil ]

\* c.Update: replaces the stored object of that name
ClientUpdate(store, obj, fault) ==
    IF fault # Nil THEN [ store |-> store, err |-> fault ]
    ELSE IF ObjectsAt(store, obj.namespace, obj.name) = {}
         THEN [ store |-> store, err |-> NotFound ]
         ELSE [ store |-> (store \ ObjectsAt(store, obj.namespace, obj.name))
                              \cup {obj},
                err   |-> Nil ]

\* k8serrors.IsAlreadyExists
IsAlreadyExists(err) == err = AlreadyExists

\* errorsutil.NewAggregate: nil errors are dropped; the Aggregate is the
\* sequence of the errors left, and the empty one, NilAggregate, is Go's nil
NilAggregate == << >>

NewAggregate(errs) == SelectSeq(errs, LAMBDA x : x # Nil)

-----------------------------------------------------------------------------
(* The stunnel package's names.                                            *)

defaultStunnelClientConfig == "stunnel-client-config"
defaultStunnelClientSecret == "stunnel-client-secret"
StunnelContainer           == "stunnel"

withPrefix(prefix, name) == prefix \o "-" \o name

-----------------------------------------------------------------------------
(* client.go: reconciliation of the client side objects.                   *)
(* s is a StunnelTransport [name, namespace, crt, key, options, image],    *)
(* e an Endpoint [hostname, port, exposedPort, labels], f the faults the   *)
(* cluster injects into this call's Create / Update requests.              *)

ClientConfigMap(s, prefix, e) ==
    [ namespace |-> s.namespace,
      name      |-> withPrefix(prefix, defaultStunnelClientConfig),
      labels    |-> e.labels,
      data      |-> ("stunnel.conf" :> RenderStunnelConf(s.options, e)) ]

\* createClientConfig that reports already-exists instead of updating
createClientConfig_NoUpdate(cms, s, prefix, e, f) ==
    ClientCreate(cms, ClientConfigMap(s, prefix, e), f.cfgCreate)

\* createClientConfig that treats already-exists as done, without an update
createClientConfig_IgnoreExists(cms, s, prefix, e, f) ==
    LET cr == ClientCreate(cms, ClientConfigMap(s, prefix, e), f.cfgCreate)
    IN  IF cr.err # Nil /\ ~IsAlreadyExists(cr.err)
        THEN [ store |-> cr.store, err |-> cr.err ]
        ELSE [ store |-> cr.store, err |-> Nil ]

createClientConfig(cms, s, prefix, e, f) ==
    LET stunnelConfigMap == ClientConfigMap(s, prefix, e)
        cr == ClientCreate(cms, stunnelConfigMap, f.cfgCreate)
    IN  IF cr.err # Nil /\ ~IsAlreadyExists(cr.err)
        THEN [ store |-> cr.store, err |-> cr.err ]
        ELSE IF IsAlreadyExists(cr.err)
        THEN LET up == ClientUpdate(cr.store, stunnelConfigMap, f.cfgUpdate)
             IN  IF up.err # Nil
                 THEN [ store |-> up.store, err |-> up.err ]
                 ELSE [ store |-> up.store, err |-> Nil ]
        ELSE [ store |-> cr.store, err |-> Nil ]

ClientSecret(s, prefix, e) ==
    [ namespace |-> s.namespace,
      name      |-> withPrefix(prefix, defaultStunnelClientSecret),
      labels    |-> e.labels,
      data      |-> ("tls.crt" :> s.crt) @@ ("tls.key" :> s.key) ]

\* createClientSecret that overwrites an existing secret
createClientSecret_UpdateOnExists(secs, s, prefix, e, f) ==
    LET cr == ClientCreate(secs, ClientSecret(s, prefix, e), f.secCreate)
    IN  IF cr.err # Nil /\ ~IsAlreadyExists(cr.err)
        THEN [ store |-> cr.store, err |-> cr.err ]
        ELSE IF IsAlreadyExists(cr.err)
        THEN ClientUpdate(cr.store, ClientSecret(s, prefix, e), Nil)
        ELSE [ store |-> cr.store, err |-> Nil ]

createClientSecret(secs, s, prefix, e, f) ==
    LET stunnelSecret == ClientSecret(s, prefix, e)
        cr == ClientCreate(secs, stunnelSecret, f.secCreate)
    IN  IF cr.err # Nil /\ ~IsAlreadyExists(cr.err)
        THEN [ store |-> cr.store, err |-> cr.err ]
        ELSE [ store |-> cr.store, err |-> Nil ]

setClientContainers(s, e) ==
    << [ name    |-> StunnelContainer,
         image   |-> s.image,
         command |-> <<"/bin/stunnel", "/etc/stunnel/stunnel.conf">>,
         ports   |-> << [ name |-> "stunnel", protocol |-> "TCP",
                          containerPort |-> e.port ] >>,
         volumeMounts |->
           << [ name |-> defaultStunnelClientConfig,
                mountPath |-> "/etc/stunnel/stunnel.conf",
                subPath |-> "stunnel.conf" ],
              [ name |-> defaultStunnelClientSecret,
                mountPath |-> "/etc/stunnel/certs",
                subPath |-> "" ] >> ] >>

createClientVolumes(s, prefix) ==
    << [ name      |-> defaultStunnelClientConfig,
         configMap |-> withPrefix(prefix, defaultStunnelClientConfig) ],
       [ name       |-> defaultStunnelClientSecret,
         secretName |-> withPrefix(prefix, defaultStunnelClientSecret),
         items      |-> << [ key |-> "tls.crt", path |-> "tls.crt" ],
                           [ key |-> "tls.key", path |-> "tls.key" ] >> ] >>

\* createClientResources that returns at the first failing step
createClientResources_StopAtFirst(cms, secs, s, prefix, e, f) ==
    LET cfg == createClientConfig(cms, s, prefix, e, f)
        sec == createClientSecret(secs, s, prefix, e, f)
    IN  IF cfg.err # Nil
        THEN [ configMaps |-> cfg.store, secrets |-> secs,
               clientContainers |-> << >>, clientVolumes |-> << >>,
               err |-> NewAggregate(<<cfg.err>>) ]
        ELSE [ configMaps |-> cfg.store, secrets |-> sec.store,
               clientContainers |-> setClientContainers(s, e),
               clientVolumes    |-> createClientVolumes(s, prefix),
               err |-> NewAggregate(<<cfg.err, sec.err>>) ]

createClientResources(cms, secs, s, prefix, e, f) ==
    LET cfg  == createClientConfig(cms, s, prefix, e, f)
        sec  == createClientSecret(secs, s, prefix, e, f)
        errs == <<cfg.err, sec.err>>
    IN  [ configMaps       |-> cfg.store,
          secrets          |-> sec.store,
          clientContainers |-> setClientContainers(s, e),
          clientVolumes    |-> createClientVolumes(s, prefix),
          err              |-> NewAggregate(errs) ]

-----------------------------------------------------------------------------
(* Spec: CreateClient called again and again, one call at a time, against  *)
(* one cluster, by two transports of one namespace that differ in their    *)
(* certificate, key and options.                                           *)

DefaultOptions ==
    [ CAVerifyLevel |-> "", ProxyURL |-> "", ProxyUsername |-> "",
      ProxyPassword |-> "", NoVerifyCA |-> FALSE ]

ProxyOptions ==
    [ CAVerifyLevel |-> "0", ProxyURL |-> "proxy.example:3128",
      ProxyUsername |-> "alice", ProxyPassword |-> "s3cret",
      NoVerifyCA |-> TRUE ]

Transports ==
    { [ name |-> "t1", namespace |-> "ns-a", crt |-> "crt-1", key |-> "key-1",
        options |-> DefaultOptions, image |-> "stunnel:latest" ],
      [ name |-> "t2", namespace |-> "ns-a", crt |-> "crt-2", key |-> "key-2",
        options |-> ProxyOptions, image |-> "stunnel:latest" ] }

TransportNames == { t.name : t \in Transports }

Endpoints ==
    { [ hostname |-> "dest-1.example", port |-> 2222, exposedPort |-> 443,
        labels |-> "app=crane2-rsync" ] }

Prefixes == {"pvc-a", "pvc-b"}

\* the errors the cluster may answer a request with, besides already-exists
Faults ==
    [ cfgCreate : {Nil, "config create refused"},
      cfgUpdate : {Nil, "config update refused"},
      secCreate : {Nil, "secret create refused"} ]

\* the answers to the requests a call makes: the Update is requested only
\* after a Create that was answered already-exists
FaultsAt(cms, s, prefix) ==
    { f \in Faults :
        f.cfgUpdate # Nil =>
            /\ f.cfgCreate = Nil
            /\ ObjectsAt(cms, s.namespace,
                         withPrefix(prefix, defaultStunnelClientConfig)) # {} }

NoFaults == [ cfgCreate |-> Nil, cfgUpdate |-> Nil, secCreate |-> Nil ]

UnsetTransportState == [ clientContainers |-> << >>, clientVolumes |-> << >> ]

Init ==
    /\ configMaps = {}
    /\ secrets = {}
    /\ transportState = [ n \in TransportNames |-> UnsetTransportState ]
    /\ last = NoCall
    /\ IdleConc /\ IdleRender /\ IdleHealth /\ IdleConn

\* StunnelTransport.CreateClient(c, prefix, e) answered with faults f
CreateClientCall(s, prefix, e, f) ==
    LET r == createClientResources(configMaps, secrets, s, prefix, e, f)
    IN  /\ configMaps' = r.configMaps
        /\ secrets' = r.secrets
        /\ transportState' =
              [ transportState EXCEPT ![s.name] =
                  [ clientContainers |-> r.clientContainers,
                    clientVolumes    |-> r.clientVolumes ] ]
        /\ last' =
              [ called |-> TRUE,
                s |-> s, prefix |-> prefix, e |-> e, f |-> f,
                err       |-> r.err,
                cfgErr    |-> createClientConfig(configMaps, s, prefix, e, f).err,
                secErr    |-> createClientSecret(secrets, s, prefix, e, f).err,
                cfgBefore |-> ObjectsAt(configMaps, s.namespace,
                                 withPrefix(prefix, defaultStunnelClientConfig)),
                secBefore |-> ObjectsAt(secrets, s.namespace,
                                 withPrefix(prefix, defaultStunnelClientSecret)),
                \* the call before this one had the same inputs and no fault
                repeat    |-> /\ last.called
                              /\ last.s = s /\ last.prefix = prefix /\ last.e = e
                              /\ last.f = NoFaults,
                \* ... and that call created the secret
                firstCreated |-> /\ last.called
                                 /\ last.s = s /\ last.prefix = prefix /\ last.e = e
                                 /\ last.f = NoFaults
                                 /\ last.secBefore = {} ]

CreateClient ==
    \E s \in Transports, prefix \in Prefixes, e \in Endpoints :
      \E f \in FaultsAt(configMaps, s, prefix) :
        /\ CreateClientCall(s, prefix, e, f)
        /\ UNCHANGED <<concVars, renderVars, healthVars, connVars>>

Next == CreateClient

Spec == Init /\ [][Next]_vars

LastConfigObjects ==
    ObjectsAt(configMaps, last.s.namespace,
              withPrefix(last.prefix, defaultStunnelClientConfig))

LastSecretObjects ==
    ObjectsAt(secrets, last.s.namespace,
              withPrefix(last.prefix, defaultStunnelClientSecret))

\* the failure the config step of the last call must have met, from the
\* cluster's answers alone
LastConfigFailure ==
    IF last.f.cfgCreate # Nil THEN last.f.cfgCreate
    ELSE IF last.cfgBefore # {} THEN last.f.cfgUpdate
    ELSE Nil

\* C1: after a second CreateClient call with the inputs of the call before
\* it, neither of them answered with a fault, there is exactly one config
\* object and exactly one secret object of that (prefix, namespace); the
\* config holds the latest render and the secret is the one the second call
\* found, with the transport's bytes when the first call created it.
C1_RepeatedCallIdempotent ==
    (last.called /\ last.repeat /\ last.f = NoFaults) =>
        /\ last.err = NilAggregate
        /\ Cardinality(LastConfigObjects) = 1
        /\ \A o \in LastConfigObjects :
              o.data["stunnel.conf"] = RenderStunnelConf(last.s.options, last.e)
        /\ Cardinality(LastSecretObjects) = 1
        /\ LastSecretObjects = last.secBefore
        /\ last.firstCreated =>
              \A o \in LastSecretObjects :
                  /\ o.data["tls.crt"] = last.s.crt
                  /\ o.data["tls.key"] = last.s.key

\* C1 witness: a fault free repeat of a fault free call that created the secret
C1_Witness ==
    /\ last.called /\ last.repeat /\ last.f = NoFaults
    /\ last.firstCreated
    /\ Cardinality(configMaps) = 2

\* C2: a CreateClient call never changes or removes a stored secret object,
\* and a call that finds its secret stored, the Create answered with
\* already-exists, reports no error for the secret step.
C2_SecretNeverRewritten ==
    [][ /\ \A o \in secrets : o \in secrets'
        /\ (last'.called /\ last'.secBefore # {} /\ last'.f.secCreate = Nil)
              => last'.secErr = Nil ]_vars

\* C2 witness: a call by a transport with another certificate found the
\* secret stored, and the stored bytes are still the first ones
C2_Witness ==
    /\ last.called
    /\ last.secBefore # {}
    /\ last.f.secCreate = Nil
    /\ \E o \in LastSecretObjects :
          /\ o.data["tls.crt"] # last.s.crt
          /\ o.data["tls.key"] # last.s.key

\* C3: after a createClientConfig call that returns no error, exactly one
\* config object of that name is stored and its stunnel.conf is that call's
\* render, whether the object was absent or stored with another content.
C3_ConfigConvergesToRender ==
    (last.called /\ last.cfgErr = Nil) =>
        /\ Cardinality(LastConfigObjects) = 1
        /\ \A o \in LastConfigObjects :
              o.data["stunnel.conf"] = RenderStunnelConf(last.s.options, last.e)

\* C3 witness: the call found a config object with another content
C3_Witness ==
    /\ last.called
    /\ last.cfgErr = Nil
    /\ \E o \in last.cfgBefore :
          o.data["stunnel.conf"] # RenderStunnelConf(last.s.options, last.e)

\* C4: the error CreateClient returns holds exactly the failures of the config
\* step and of the secret step, in that order, and is nil when neither failed;
\* the secret step runs whatever the config step did: when the cluster accepts
\* the secret, it is stored after the call.
C4_BothStepsRunErrorsAggregated ==
    last.called =>
        /\ last.err = SelectSeq(<<LastConfigFailure, last.f.secCreate>>,
                                LAMBDA x : x # Nil)
        /\ (last.f.secCreate = Nil /\ last.secBefore = {}) =>
              /\ Cardinality(LastSecretObjects) = 1
              /\ \A o \in LastSecretObjects : o.data["tls.crt"] = last.s.crt
        /\ (LastConfigFailure = Nil) => Cardinality(LastConfigObjects) = 1

\* C4 witness: the config step failed and the secret was created all the same
C4_Witness ==
    /\ last.called
    /\ LastConfigFailure # Nil
    /\ last.f.secCreate = Nil
    /\ last.secBefore = {}
    /\ LastSecretObjects # {}
    /\ last.err = <<LastConfigFailure>>

\* C4 witness of the other case: both steps failed and both failures are returned
C4_BothFailed ==
    /\ last.called
    /\ Len(last.err) = 2

-----------------------------------------------------------------------------
(* SpecConc: two CreateClient calls on one (prefix, namespace), each by its *)
(* own transport, interleaved at the cluster requests.  The cluster answers *)
(* a Create with already-exists or with success, nothing else.             *)

Callers == {1, 2}

ConcInit ==
    /\ configMaps = {}
    /\ secrets = {}
    /\ transportState = [ n \in TransportNames |-> UnsetTransportState ]
    /\ last = NoCall
    /\ pc = [ i \in Callers |-> "idle" ]
    /\ \E prefix \in Prefixes, e \in Endpoints :
       \E ss \in [ Callers -> Transports ] :
          /\ ss[1] # ss[2]
          /\ call = [ i \in Callers |->
                        [ s |-> ss[i], prefix |-> prefix, e |-> e,
                          errs |-> << >>, ret |-> NilAggregate,
                          cfgCreated |-> FALSE, cfgUpdated |-> FALSE,
                          secCreated |-> FALSE ] ]
    /\ started = << >>
    /\ IdleRender /\ IdleHealth /\ IdleConn

\* client.go:50-56, the call is entered
ConcEnter(i) ==
    /\ pc[i] = "idle"
    /\ pc' = [ pc EXCEPT ![i] = "createConfig" ]
    /\ started' = Append(started, i)
    /\ UNCHANGED <<configMaps, secrets, transportState, last, call,
                     renderVars, healthVars, connVars>>

\* createClientConfig that treats already-exists as done, without an update
ConcCreateConfig_IgnoreExists(i) ==
    LET c  == call[i]
        cr == ClientCreate(configMaps, ClientConfigMap(c.s, c.prefix, c.e), Nil)
    IN  /\ pc[i] = "createConfig"
        /\ configMaps' = cr.store
        /\ pc' = [ pc EXCEPT ![i] = "createSecret" ]
        /\ call' = [ call EXCEPT ![i].errs = Append(@, Nil),
                                 ![i].cfgCreated = (cr.err = Nil) ]
        /\ UNCHANGED <<secrets, transportState, last, started,
                     renderVars, healthVars, connVars>>

\* client.go:59-60 with 81-125: the config is rendered and its Create requested
ConcCreateConfig(i) ==
    LET c  == call[i]
        cr == ClientCreate(configMaps, ClientConfigMap(c.s, c.prefix, c.e), Nil)
    IN  /\ pc[i] = "createConfig"
        /\ configMaps' = cr.store
        /\ IF cr.err # Nil /\ ~IsAlreadyExists(cr.err)
           THEN /\ pc' = [ pc EXCEPT ![i] = "createSecret" ]
                /\ call' = [ call EXCEPT ![i].errs = Append(@, cr.err) ]
           ELSE IF IsAlreadyExists(cr.err)
           THEN /\ pc' = [ pc EXCEPT ![i] = "updateConfig" ]
                /\ call' = call
           ELSE /\ pc' = [ pc EXCEPT ![i] = "createSecret" ]
                /\ call' = [ call EXCEPT ![i].errs = Append(@, Nil),
                                         ![i].cfgCreated = TRUE ]
        /\ UNCHANGED <<secrets, transportState, last, started,
                     renderVars, healthVars, connVars>>

\* client.go:126-131 with 60: the Update after an already-exists
ConcUpdateConfig(i) ==
    LET c  == call[i]
        up == ClientUpdate(configMaps, ClientConfigMap(c.s, c.prefix, c.e), Nil)
    IN  /\ pc[i] = "updateConfig"
        /\ configMaps' = up.store
        /\ pc' = [ pc EXCEPT ![i] = "createSecret" ]
        /\ call' = [ call EXCEPT ![i].errs = Append(@, up.err),
                                 ![i].cfgUpdated = (up.err = Nil) ]
        /\ UNCHANGED <<secrets, transportState, last, started,
                     renderVars, healthVars, connVars>>

\* client.go:62-63 with 143-161: the secret's Create is requested
ConcCreateSecret(i) ==
    LET c  == call[i]
        cr == ClientCreate(secrets, ClientSecret(c.s, c.prefix, c.e), Nil)
    IN  /\ pc[i] = "createSecret"
        /\ secrets' = cr.store
        /\ pc' = [ pc EXCEPT ![i] = "finish" ]
        /\ call' = [ call EXCEPT
                       ![i].errs = Append(@, IF cr.err # Nil /\ ~IsAlreadyExists(cr.err)
                                             THEN cr.err ELSE Nil),
                       ![i].secCreated = (cr.err = Nil) ]
        /\ UNCHANGED <<configMaps, transportState, last, started,
                     renderVars, healthVars, connVars>>

\* client.go:65-69: containers and volumes are set, the errors aggregated
ConcFinish(i) ==
    LET c == call[i]
    IN  /\ pc[i] = "finish"
        /\ transportState' =
              [ transportState EXCEPT ![c.s.name] =
                  [ clientContainers |-> setClientContainers(c.s, c.e),
                    clientVolumes    |-> createClientVolumes(c.s, c.prefix) ] ]
        /\ call' = [ call EXCEPT ![i].ret = NewAggregate(c.errs) ]
        /\ pc' = [ pc EXCEPT ![i] = "done" ]
        /\ UNCHANGED <<configMaps, secrets, last, started,
                     renderVars, healthVars, connVars>>

ConcNext ==
    \E i \in Callers :
        \/ ConcEnter(i)
        \/ ConcCreateConfig(i)
        \/ ConcUpdateConfig(i)
        \/ ConcCreateSecret(i)
        \/ ConcFinish(i)

SpecConc == ConcInit /\ [][ConcNext]_vars

AllDone == \A i \in Callers : pc[i] = "done"

ConcConfigObjects ==
    ObjectsAt(configMaps, call[1].s.namespace,
              withPrefix(call[1].prefix, defaultStunnelClientConfig))

ConcSecretObjects ==
    ObjectsAt(secrets, call[1].s.namespace,
              withPrefix(call[1].prefix, defaultStunnelClientSecret))

\* C10: no call is ever blocked, and when both calls have returned: both
\* returned nil; one config object and one secret object are stored; the
\* config Create of exactly one call succeeded and the config holds the render
\* of the other call, whose Update came last; the secret Create of exactly one
\* call succeeded and the secret holds that call's certificate and key.
C10_ConcurrentCallsConverge ==
    /\ ~AllDone => ENABLED ConcNext
    /\ AllDone =>
        /\ \A i \in Callers : call[i].ret = NilAggregate
        /\ Cardinality(ConcConfigObjects) = 1
        /\ Cardinality(ConcSecretObjects) = 1
        /\ \E w \in Callers :
              /\ call[w].cfgCreated /\ ~call[w].cfgUpdated
              /\ \A l \in Callers \ {w} :
                    /\ ~call[l].cfgCreated /\ call[l].cfgUpdated
                    /\ \A o \in ConcConfigObjects :
                          o.data["stunnel.conf"] =
                              RenderStunnelConf(call[l].s.options, call[l].e)
        /\ \E w \in Callers :
              /\ call[w].secCreated
              /\ \A l \in Callers \ {w} : ~call[l].secCreated
              /\ \A o \in ConcSecretObjects :
                    /\ o.data["tls.crt"] = call[w].s.crt
                    /\ o.data["tls.key"] = call[w].s.key

\* C10 witness: both calls returned; the config is the render of the call
\* that was entered first, the secret is the other call's
C10_Witness ==
    /\ AllDone
    /\ call[started[1]].cfgUpdated
    /\ call[started[2]].secCreated
    /\ \A o \in ConcConfigObjects :
          o.data["stunnel.conf"] =
              RenderStunnelConf(call[started[1]].s.options, call[started[1]].e)
    /\ \A o \in ConcSecretObjects : o.data["tls.crt"] = call[started[2]].s.crt

-----------------------------------------------------------------------------
(* transfer.go: health evaluation.                                         *)
(* A pod is [namespace, name, containerStatuses]; a container status is    *)
(* [name, ready].                                                          *)

\* client.ObjectKey's String(): namespace/name
ObjectKeyString(p) == p.namespace \o "/" \o p.name

RECURSIVE FirstNotReady(_)
\* transfer.go:101-105, the first status of the loop that is not ready
\* (<< >> when every status is ready)
FirstNotReady(statuses) ==
    IF statuses = << >> THEN << >>
    ELSE IF ~Head(statuses).ready THEN <<Head(statuses)>>
    ELSE FirstNotReady(Tail(statuses))

\* areContainersReady without the check of the number of statuses
areContainersReady_NoCountCheck(pod) ==
    LET bad == FirstNotReady(pod.containerStatuses)
    IN  IF bad # << >>
        THEN [ ok |-> FALSE,
               err |-> "container " \o bad[1].name \o " in pod "
                       \o ObjectKeyString(pod) \o " is not ready" ]
        ELSE [ ok |-> TRUE, err |-> Nil ]

areContainersReady(pod) ==
    IF Len(pod.containerStatuses) # 2
    THEN [ ok |-> FALSE,
           err |-> "expected two container statuses found "
                   \o Itoa(Len(pod.containerStatuses)) \o ", for pod "
                   \o ObjectKeyString(pod) ]
    ELSE LET bad == FirstNotReady(pod.containerStatuses)
         IN  IF bad # << >>
             THEN [ ok |-> FALSE,
                    err |-> "container " \o bad[1].name \o " in pod "
                            \o ObjectKeyString(pod) \o " is not ready" ]
             ELSE [ ok |-> TRUE, err |-> Nil ]

\* c.Get of a pod: the pods of that namespace and name, or an error
ClientGetPod(store, key, fault) ==
    LET found == { i \in DOMAIN store :
                     store[i].namespace = key.namespace /\ store[i].name = key.name }
    IN  IF fault # Nil THEN [ pod |-> << >>, err |-> fault ]
        ELSE IF found = {} THEN [ pod |-> << >>, err |-> NotFound ]
        ELSE [ pod |-> <<store[CHOOSE i \in found : TRUE]>>, err |-> Nil ]

\* c.List of the pods of a namespace that match the selector
ClientListPods(store, namespace, fault) ==
    IF fault # Nil THEN [ items |-> << >>, err |-> fault ]
    ELSE [ items |-> SelectSeq(store, LAMBDA p : p.namespace = namespace),
           err   |-> Nil ]

IsPodHealthy(store, key, fault) ==
    LET got == ClientGetPod(store, key, fault)
    IN  IF got.err # Nil THEN [ ok |-> FALSE, err |-> got.err ]
        ELSE areContainersReady(got.pod[1])

RECURSIVE FilteredPodsLoop(_, _)
\* transfer.go:120-132, the loop over pList.Items and the final return
FilteredPodsLoop(items, errs) ==
    IF items = << >> THEN [ ok |-> FALSE, err |-> NewAggregate(errs) ]
    ELSE LET r == areContainersReady(Head(items))
             errs2 == IF r.err # Nil THEN Append(errs, r.err) ELSE errs
         IN  IF r.ok THEN [ ok |-> TRUE, err |-> NilAggregate ]
             ELSE FilteredPodsLoop(Tail(items), errs2)

RECURSIVE FilteredPodsLoop_StopAtFirst(_, _)
\* the loop giving up at the first pod that is not healthy
FilteredPodsLoop_StopAtFirst(items, errs) ==
    IF items = << >> THEN [ ok |-> FALSE, err |-> NewAggregate(errs) ]
    ELSE LET r == areContainersReady(Head(items))
         IN  IF r.ok THEN [ ok |-> TRUE, err |-> NilAggregate ]
             ELSE [ ok |-> FALSE, err |-> NewAggregate(<<r.err>>) ]

\* AreFilteredPodsHealthy with the loop giving up at the first unhealthy pod
AreFilteredPodsHealthy_StopAtFirst(store, namespace, fault) ==
    LET pList == ClientListPods(store, namespace, fault)
    IN  IF pList.err # Nil THEN [ ok |-> FALSE, err |-> pList.err ]
        ELSE FilteredPodsLoop_StopAtFirst(pList.items, << >>)

AreFilteredPodsHealthy(store, namespace, fault) ==
    LET pList == ClientListPods(store, namespace, fault)
    IN  IF pList.err # Nil THEN [ ok |-> FALSE, err |-> pList.err ]
        ELSE FilteredPodsLoop(pList.items, << >>)

-----------------------------------------------------------------------------
(* SpecHealth: health evaluations against a cluster holding up to MaxPods  *)
(* pods of up to MaxStatuses container statuses each.                      *)

MaxPods     == 2
MaxStatuses == 3

PodNamespace   == "ns-a"
EmptyNamespace == "ns-b"

ContainerName(i) == "container-" \o Itoa(i)
PodName(i)       == "pod-" \o Itoa(i)

\* every list of up to two statuses; of the longer lists, which are in error
\* whatever their statuses, the one all ready and the one all not ready
StatusLists ==
    UNION { { [ i \in 1..n |-> [ name |-> ContainerName(i), ready |-> r[i] ] ]
                : r \in IF n <= 2 THEN [ 1..n -> BOOLEAN ]
                                  ELSE { [ i \in 1..n |-> b ] : b \in BOOLEAN } }
            : n \in 0..MaxStatuses }

PodLists ==
    UNION { { [ i \in 1..n |-> [ namespace |-> PodNamespace, name |-> PodName(i),
                                 containerStatuses |-> st[i] ] ]
                : st \in [ 1..n -> StatusLists ] } : n \in 0..MaxPods }

NoHealth == [ op |-> "none" ]

HealthInit ==
    /\ pods \in PodLists
    /\ health = NoHealth
    /\ IdleCluster /\ IdleConc /\ IdleRender /\ IdleConn

\* IsPodHealthy(c, pod) on a stored pod or on one that is not stored
IsPodHealthyCall ==
    \E i \in 1..(Len(pods) + 1), fault \in {Nil, "get refused"} :
        LET key == [ namespace |-> PodNamespace, name |-> PodName(i) ]
            r   == IsPodHealthy(pods, key, fault)
        IN  /\ health' = [ op |-> "IsPodHealthy", key |-> key, fault |-> fault,
                           ok |-> r.ok, err |-> r.err ]
            /\ UNCHANGED <<pods, clusterVars, concVars, renderVars, connVars>>

\* AreFilteredPodsHealthy(c, namespace, labels)
AreFilteredPodsHealthyCall ==
    \E namespace \in {PodNamespace, EmptyNamespace},
       fault \in {Nil, "list refused"} :
        LET r == AreFilteredPodsHealthy(pods, namespace, fault)
        IN  /\ health' = [ op |-> "AreFilteredPodsHealthy",
                           namespace |-> namespace, fault |-> fault,
                           ok |-> r.ok, err |-> r.err ]
            /\ UNCHANGED <<pods, clusterVars, concVars, renderVars, connVars>>

HealthNext == IsPodHealthyCall \/ AreFilteredPodsHealthyCall

SpecHealth == HealthInit /\ [][HealthNext]_vars

\* the container-readiness rule, on the statuses themselves
Healthy(p) ==
    /\ Len(p.containerStatuses) = 2
    /\ \A i \in DOMAIN p.containerStatuses : p.containerStatuses[i].ready

\* the pods a List of the namespace returns
Listed(namespace) == SelectSeq(pods, LAMBDA p : p.namespace = namespace)

\* C6: when the list call succeeds, AreFilteredPodsHealthy returns (true, nil)
\* exactly when some listed pod is healthy, wherever it stands in the list;
\* otherwise it returns false with the failures of all the listed pods, one
\* per pod in list order, which for an empty list is (false, nil).
C6_FilteredPodsHealthy ==
    (health.op = "AreFilteredPodsHealthy" /\ health.fault = Nil) =>
        LET items == Listed(health.namespace)
        IN  /\ health.ok <=> \E i \in DOMAIN items : Healthy(items[i])
            /\ health.ok => health.err = NilAggregate
            /\ ~health.ok =>
                  /\ Len(health.err) = Len(items)
                  /\ \A i \in DOMAIN items :
                        /\ health.err[i] # Nil
                        /\ health.err[i] = areContainersReady(items[i]).err
            /\ items = << >> => (~health.ok /\ health.err = NilAggregate)

\* C6 witness: only the last of several listed pods is healthy
C6_Witness ==
    /\ health.op = "AreFilteredPodsHealthy" /\ health.fault = Nil
    /\ Len(Listed(health.namespace)) >= 2
    /\ ~Healthy(Listed(health.namespace)[1])
    /\ Healthy(Listed(health.namespace)[Len(Listed(health.namespace))])
    /\ health.ok /\ health.err = NilAggregate

\* C6 witness of the other case: several listed pods, none healthy
C6_NoneHealthy ==
    /\ health.op = "AreFilteredPodsHealthy" /\ health.fault = Nil
    /\ Len(Listed(health.namespace)) >= 2
    /\ ~health.ok /\ Len(health.err) = Len(Listed(health.namespace))

\* the pod an IsPodHealthy call fetched
Fetched == pods[CHOOSE i \in DOMAIN pods : pods[i].name = health.key.name]

\* C7: after a successful fetch IsPodHealthy returns (true, nil) exactly when
\* the pod has two container statuses, all ready; with another number of
\* statuses it returns false and the error that reports the number found;
\* with two statuses not all ready it returns false and the error that names
\* a container that is not ready.  It never returns (true, error) or (false, nil).
C7_ContainerReadinessRule ==
    (health.op = "IsPodHealthy" /\ health.fault = Nil
        /\ \E i \in DOMAIN pods : pods[i].name = health.key.name) =>
        LET p == Fetched
            n == Len(p.containerStatuses)
        IN  /\ health.ok <=> Healthy(p)
            /\ health.ok <=> (health.err = Nil)
            /\ n # 2 =>
                  health.err = "expected two container statuses found "
                               \o Itoa(n) \o ", for pod " \o ObjectKeyString(p)
            /\ (n = 2 /\ ~Healthy(p)) =>
                  \E i \in 1..n :
                      /\ ~p.containerStatuses[i].ready
                      /\ health.err = "container " \o p.containerStatuses[i].name
                                      \o " in pod " \o ObjectKeyString(p)
                                      \o " is not ready"

\* C7 witness: two statuses, only the second one not ready
C7_Witness ==
    /\ health.op = "IsPodHealthy" /\ health.fault = Nil
    /\ \E i \in DOMAIN pods : pods[i].name = health.key.name
    /\ Len(Fetched.containerStatuses) = 2
    /\ Fetched.containerStatuses[1].ready
    /\ ~Fetched.containerStatuses[2].ready
    /\ ~health.ok
    /\ health.err = "container container-2 in pod ns-a/" \o health.key.name
                    \o " is not ready"

\* C7 witness of the other case: three statuses, all ready, is an error
C7_ThreeStatuses ==
    /\ health.op = "IsPodHealthy" /\ health.fault = Nil
    /\ \E i \in DOMAIN pods : pods[i].name = health.key.name
    /\ Len(Fetched.containerStatuses) = 3
    /\ \A i \in 1..3 : Fetched.containerStatuses[i].ready
    /\ ~health.ok /\ health.err # Nil

-----------------------------------------------------------------------------
(* transfer.go: connection address of a Transfer t, given by what its      *)
(* Transport() and Endpoint() return.                                      *)

ConnectionHostname(t) ==
    IF t.transport.direct THEN t.endpoint.hostname ELSE "localhost"

\* ConnectionPort answering with the endpoint's Port instead of its ExposedPort
ConnectionPort_EndpointPort(t) ==
    IF t.transport.direct THEN t.endpoint.port ELSE t.transport.port

ConnectionPort(t) ==
    IF t.transport.direct THEN t.endpoint.exposedPort ELSE t.transport.port

-----------------------------------------------------------------------------
(* SpecConn: the two functions applied to transfers of direct and of       *)
(* tunneled transports.                                                    *)

Transfers ==
    [ transport : [ direct : BOOLEAN, port : {1080, 2222, 2223} ],
      endpoint  : [ hostname : {"dest-1.example", "dest-2.example", "localhost"},
                    port : {2222},
                    exposedPort : {443, 6443, 8443} ] ]

\* nothing asked yet: each result is << >>, or <<value>> once computed
NoConn == [ hostname |-> << >>, port |-> << >> ]

ConnInit ==
    /\ transfer \in Transfers
    /\ conn = NoConn
    /\ IdleCluster /\ IdleConc /\ IdleRender /\ IdleHealth

ConnectionHostnameCall ==
    /\ conn' = [ conn EXCEPT !.hostname = <<ConnectionHostname(transfer)>> ]
    /\ UNCHANGED <<transfer, clusterVars, concVars, renderVars, healthVars>>

ConnectionPortCall ==
    /\ conn' = [ conn EXCEPT !.port = <<ConnectionPort(transfer)>> ]
    /\ UNCHANGED <<transfer, clusterVars, concVars, renderVars, healthVars>>

ConnNext == ConnectionHostnameCall \/ ConnectionPortCall

SpecConn == ConnInit /\ [][ConnNext]_vars

ConnResultsRight ==
    /\ conn.hostname # << >> =>
          conn.hostname[1] = IF transfer.transport.direct
                             THEN transfer.endpoint.hostname ELSE "localhost"
    /\ conn.port # << >> =>
          conn.port[1] = IF transfer.transport.direct
                         THEN transfer.endpoint.exposedPort
                         ELSE transfer.transport.port

\* C8: for a direct transport ConnectionHostname is the endpoint's hostname
\* and ConnectionPort its ExposedPort; otherwise they are "localhost" and the
\* transport's Port; and neither call changes the transfer or anything else
\* of the program's state.
C8_ConnectionAddress ==
    [][ /\ ConnResultsRight'
        /\ transfer' = transfer
        /\ UNCHANGED <<clusterVars, concVars, renderVars, healthVars>> ]_vars

\* C8 witness: both results computed for a direct transport whose endpoint is
\* neither localhost nor on the transport's port
C8_Witness ==
    /\ conn.hostname = <<"dest-1.example">>
    /\ conn.port = <<8443>>
    /\ transfer.transport.direct
    /\ transfer.transport.port = 2222

\* C8 witness of the other case: a tunneled transport
C8_Tunneled ==
    /\ conn.hostname = <<"localhost">>
    /\ conn.port = <<1080>>
    /\ ~transfer.transport.direct
    /\ transfer.endpoint.hostname = "dest-2.example"

=============================================================================
